---- MODULE Spec2Model ----
(***************************************************************************)
(* A model of express.py: symbolic expression trees (Number, Symbol,       *)
(* Negative, Add, Multiply, Derivative, Tensor), their operator overloads, *)
(* diff and eval.  Python objects are records tagged by their type in the  *)
(* field t; a raised exception is the record Err(kind) and aborts every    *)
(* computation it reaches.                                                 *)
(***************************************************************************)
EXTENDS Integers, Sequences, FiniteSets, TLC

VARIABLES
    f,      \* the client's expression
    g,      \* the client's second operand
    last,   \* the last operation that built f, with its operands
    dwrt,   \* what f was differentiated with respect to, None before
    df,     \* f.diff(dwrt), None before
    env,    \* the bindings of the last eval
    res,    \* what the last eval returned, None before
    exc,    \* the exception the last operation raised, None if it returned
    heap,   \* the entries of the arrays nodes and bindings hold
    nops    \* tree-building operations the client may still apply

vars == <<f, g, last, dwrt, df, env, res, exc, heap, nops>>

(***************************************************************************)
(* Bounds of the model.                                                    *)
(***************************************************************************)
\* operations that build a tree, per client
MaxOps == 1
MaxGradOps == 2
MaxTensorOps == 2
MaxArrOps == 2
\* nested eval frames after which the interpreter raises RecursionError
RecursionLimit == 12
\* largest array entry kept in the heap by the array client
MaxEntry == 6

(***************************************************************************)
(* Python values.                                                          *)
(***************************************************************************)
Raw(n) == [t |-> "int", v |-> n]
Err(k) == [t |-> "Error", kind |-> k]
None == [t |-> "None"]
\* body applied to the value x: the body refers to a result it gets once
Bind(x, body(_)) == body(x)
Str(cs) == [t |-> "str", chars |-> cs]
PyList(xs) == [t |-> "list", args |-> xs]
\* a persistent numpy array, held by a Number node or by the caller's bindings
Ref(i) == [t |-> "ref", id |-> i]
\* a numpy array created during an evaluation
NdArray(d) == [t |-> "ndarray", data |-> d]

Number(value) == [t |-> "Number", value |-> value]
Symbol(name) == [t |-> "Symbol", name |-> name]
Negative(arg) == [t |-> "Negative", arg |-> arg]
Add(args) == [t |-> "Add", args |-> args]
Multiply(args) == [t |-> "Multiply", args |-> args]
Derivative(wrt, arg) == [t |-> "Derivative", wrt |-> wrt, arg |-> arg]

ExpressionTypes == {"Number", "Symbol", "Negative", "Add", "Multiply", "Derivative", "Tensor"}

IsErr(x) == x.t = "Error"
IsExpression(x) == x.t \in ExpressionTypes
IsTensor(x) == x.t = "Tensor"
IsInt(x) == x.t = "int"
IsArray(x) == x.t \in {"ref", "ndarray"}

\* the first exception raised while a comprehension builds xs, if any
FirstErr(xs) == xs[CHOOSE i \in 1..Len(xs) : IsErr(xs[i]) /\ \A j \in 1..(i-1) : ~IsErr(xs[j])]
HasErr(xs) == \E i \in 1..Len(xs) : IsErr(xs[i])

Min(a, b) == IF a < b THEN a ELSE b

RECURSIVE express(_), Tensor_init(_), Tensor_shape(_), Tensor_order(_)
RECURSIVE py_op(_, _, _)
RECURSIVE Expression_neg(_), Expression_add(_, _), Expression_sub(_, _), Expression_mul(_, _)
RECURSIVE Expression_inner(_, _), Expression_T(_), diff(_, _), eval(_, _, _, _)
RECURSIVE Number_diff(_, _), Symbol_diff(_, _), Add_diff_from(_, _, _, _), Multiply_term(_, _, _, _)
RECURSIVE Multiply_diff_from(_, _, _, _)
RECURSIVE np_bin(_, _, _), np_shape(_)
RECURSIVE Add_eval_from(_, _, _, _, _, _), Multiply_eval_from(_, _, _, _, _, _)
RECURSIVE Tensor_eval_from(_, _, _, _, _, _)
RECURSIVE SplitFrom(_, _, _)

\* str.split(): the maximal runs of non-blank characters, in order
SplitFrom(cs, i, cur) ==
    IF i > Len(cs) THEN (IF cur = <<>> THEN <<>> ELSE <<cur>>)
    ELSE IF cs[i] = " " THEN (IF cur = <<>> THEN <<>> ELSE <<cur>>) \o SplitFrom(cs, i + 1, <<>>)
    ELSE SplitFrom(cs, i + 1, Append(cur, cs[i]))

Split(cs) == SplitFrom(cs, 1, <<>>)

\* shape of a node: () for every scalar node
Tensor_shape(e) ==
    IF IsTensor(e) THEN <<Len(e.args)>> \o Tensor_shape(e.args[1]) ELSE <<>>

Tensor_order(e) ==
    IF IsTensor(e) THEN Tensor_order(e.args[1]) + 1 ELSE 0

\* Tensor(args) without the assertion that the elements have one shape
Tensor_init_any_shapes(args) ==
    Bind([i \in 1..Len(args) |-> express(args[i])], LAMBDA xs :
        IF HasErr(xs) THEN FirstErr(xs)
        ELSE IF Len(xs) = 0 THEN Err("AssertionError")
        ELSE IF \E i \in 1..Len(xs) : ~IsExpression(xs[i]) THEN Err("AttributeError")
        ELSE [t |-> "Tensor", args |-> xs])

\* Tensor(args): coerce every element, then the two assertions
Tensor_init(args) ==
    Bind([i \in 1..Len(args) |-> express(args[i])], LAMBDA xs :
        IF HasErr(xs) THEN FirstErr(xs)
        ELSE IF Len(xs) = 0 THEN Err("AssertionError")
        ELSE IF \E i \in 1..Len(xs) : ~IsExpression(xs[i]) THEN Err("AttributeError")
        ELSE IF Cardinality({Tensor_shape(xs[i]) : i \in 1..Len(xs)}) # 1 THEN Err("AssertionError")
        ELSE [t |-> "Tensor", args |-> xs])

express(obj) ==
    IF IsExpression(obj) THEN obj
    ELSE IF obj.t = "list" THEN Tensor_init(obj.args)
    ELSE IF obj.t = "str" THEN
        LET objs == Split(obj.chars) IN
        IF Len(objs) > 1 THEN PyList([i \in 1..Len(objs) |-> Symbol(objs[i])])
        ELSE IF Len(objs) = 1 THEN Symbol(objs[1])
        ELSE Err("TypeError")
    ELSE IF IsInt(obj) THEN Number(obj)
    ELSE IF IsErr(obj) THEN obj
    ELSE Err("TypeError")

(***************************************************************************)
(* Comparison with a literal, as the identity shortcuts use it: only       *)
(* Number overrides ==; any other node compares by identity and is never   *)
(* equal to a number.  The truth value of a comparison with an array of    *)
(* more than one entry raises ValueError.                                  *)
(***************************************************************************)
Number_eq(self, n) == IsInt(self.value) /\ self.value.v = n

eq_raises(a) ==
    \/ a.t = "ref"
    \/ a.t = "ndarray" /\ Len(a.data) # 1
    \/ a.t = "Number" /\ a.value.t = "ref"

eq_lit(a, n) ==
    IF IsInt(a) THEN a.v = n
    ELSE IF a.t = "Number" THEN Number_eq(a, n)
    ELSE IF a.t = "ndarray" THEN Len(a.data) = 1 /\ a.data[1] = Raw(n)
    ELSE FALSE

(***************************************************************************)
(* The operator protocol: a + b calls a.__add__(b), and for a host number  *)
(* a it falls to b.__radd__(a) == Expression.__add__(a, b).                *)
(***************************************************************************)
ApplyOp(op, m, n) == IF op = "+" THEN m + n ELSE IF op = "-" THEN m - n ELSE m * n

py_neg(a) == py_op("neg", a, None)

py_add(a, b) == py_op("+", a, b)

py_sub(a, b) == py_op("-", a, b)

py_mul(a, b) == py_op("*", a, b)

Derivative_mul(self, other) ==
    IF self.arg = None THEN Derivative(self.wrt, other)
    ELSE Expression_mul(self, other)

\* the dispatch of -a, a + b, a - b and a * b on the operands' types
py_op(op, a, b) ==
    IF IsErr(a) THEN a ELSE IF IsErr(b) THEN b
    ELSE IF op = "neg" THEN
        IF IsInt(a) THEN Raw(0 - a.v)
        ELSE IF IsExpression(a) THEN Expression_neg(a)
        ELSE Err("TypeError")
    ELSE IF IsInt(a) /\ IsInt(b) THEN Raw(ApplyOp(op, a.v, b.v))
    ELSE IF op = "*" /\ a.t = "Derivative" THEN Derivative_mul(a, b)
    ELSE IF IsExpression(a) \/ (IsInt(a) /\ IsExpression(b)) THEN
        IF op = "+" THEN Expression_add(a, b)
        ELSE IF op = "-" THEN Expression_sub(a, b)
        ELSE Expression_mul(a, b)
    ELSE Err("TypeError")

Expression_neg(self) ==
    IF eq_raises(self) THEN Err("ValueError")
    ELSE IF eq_lit(self, 0) THEN self
    ELSE IF IsTensor(self) THEN Tensor_init([i \in 1..Len(self.args) |-> py_neg(self.args[i])])
    ELSE Negative(self)

Expression_add(self, other) ==
    IF eq_raises(other) THEN Err("ValueError")
    ELSE IF eq_lit(other, 0) THEN self
    ELSE IF eq_raises(self) THEN Err("ValueError")
    ELSE IF eq_lit(self, 0) THEN other
    ELSE IF IsTensor(self) /\ IsTensor(other) THEN
        IF Tensor_shape(self) # Tensor_shape(other) THEN Err("AssertionError")
        ELSE Tensor_init([i \in 1..Min(Len(self.args), Len(other.args)) |->
                            py_add(self.args[i], other.args[i])])
    ELSE IF IsTensor(self) THEN Tensor_init([i \in 1..Len(self.args) |-> py_add(self.args[i], other)])
    ELSE IF IsTensor(other) THEN Tensor_init([i \in 1..Len(other.args) |-> py_add(self, other.args[i])])
    ELSE Add(<<self, other>>)

Expression_sub(self, other) ==
    IF IsTensor(self) /\ IsTensor(other) THEN
        IF Tensor_shape(self) # Tensor_shape(other) THEN Err("AssertionError")
        ELSE Tensor_init([i \in 1..Min(Len(self.args), Len(other.args)) |->
                            py_sub(self.args[i], other.args[i])])
    ELSE IF IsTensor(self) THEN Tensor_init([i \in 1..Len(self.args) |-> py_sub(self.args[i], other)])
    ELSE IF IsTensor(other) THEN Tensor_init([i \in 1..Len(other.args) |-> py_sub(self, other.args[i])])
    ELSE Bind(py_neg(other), LAMBDA n : IF IsErr(n) THEN n ELSE Add(<<self, n>>))

Expression_mul(self, other) ==
    IF IsTensor(self) /\ IsTensor(other) THEN Err("AssertionError")
    ELSE IF eq_raises(other) THEN Err("ValueError")
    ELSE IF eq_lit(other, 1) THEN self
    ELSE IF eq_raises(self) THEN Err("ValueError")
    ELSE IF eq_lit(self, 1) THEN other
    ELSE IF IsTensor(self) THEN Tensor_init([i \in 1..Len(self.args) |-> py_mul(self.args[i], other)])
    ELSE IF IsTensor(other) THEN Tensor_init([i \in 1..Len(other.args) |-> py_mul(self, other.args[i])])
    ELSE IF eq_lit(other, 0) THEN other
    ELSE IF eq_lit(self, 0) THEN self
    ELSE Multiply(<<self, other>>)

(***************************************************************************)
(* Tensor products and transpose.                                          *)
(***************************************************************************)
Expression_inner(self, other) ==
    IF ~(IsTensor(self) /\ IsTensor(other)) THEN py_mul(self, other)
    ELSE IF Tensor_order(self) > 1 /\ Tensor_order(other) > 1 THEN
        Tensor_init([i \in 1..Min(Len(self.args), Len(other.args)) |->
                        Expression_inner(self.args[i], other.args[i])])
    ELSE IF Tensor_order(self) > 1 THEN
        Tensor_init([i \in 1..Len(self.args) |-> Expression_inner(self.args[i], other)])
    ELSE IF Tensor_order(other) > 1 THEN
        Tensor_init([i \in 1..Len(other.args) |-> Expression_inner(self, other.args[i])])
    ELSE Bind([i \in 1..Min(Len(self.args), Len(other.args)) |->
                        py_mul(self.args[i], other.args[i])],
              LAMBDA ps : IF HasErr(ps) THEN FirstErr(ps) ELSE Add(ps))

Expression_outer(self, other) ==
    IF ~(IsTensor(self) /\ IsTensor(other)) THEN py_mul(self, other)
    ELSE IF Tensor_order(self) > 1 \/ Tensor_order(other) > 1 THEN Err("NotImplementedError")
    ELSE Tensor_init([i \in 1..Len(self.args) |->
            Tensor_init([j \in 1..Len(other.args) |-> py_mul(self.args[i], other.args[j])])])

\* zip(*rows): the columns, as many as the shortest row has entries
MinLen(rows) == CHOOSE n \in {Len(rows[i].args) : i \in 1..Len(rows)} :
                    \A i \in 1..Len(rows) : n <= Len(rows[i].args)

Expression_T(self) ==
    IF Tensor_order(self) > 2 THEN
        Tensor_init([i \in 1..Len(self.args) |-> Expression_T(self.args[i])])
    ELSE IF Tensor_order(self) = 2 THEN
        Tensor_init([j \in 1..MinLen(self.args) |->
            PyList([i \in 1..Len(self.args) |-> self.args[i].args[j]])])
    ELSE self

(***************************************************************************)
(* diff                                                                    *)
(***************************************************************************)
\* Number.diff without its Tensor case
Number_diff_scalar_only(self, wrt) == Number(Raw(0))

Number_diff(self, wrt) ==
    IF IsTensor(wrt) THEN Tensor_init([i \in 1..Len(wrt.args) |-> Number_diff(self, wrt.args[i])])
    ELSE Number(Raw(0))

Symbol_diff(self, wrt) ==
    IF IsTensor(wrt) THEN Tensor_init([i \in 1..Len(wrt.args) |-> Symbol_diff(self, wrt.args[i])])
    ELSE IF wrt.t = "Symbol" /\ wrt.name = self.name THEN Number(Raw(1))
    ELSE Derivative(wrt, self)

Negative_diff(self, wrt) == py_neg(diff(self.arg, wrt))

\* the loop of Add.diff from operand i on, deriv being the sum so far
Add_diff_from(args, i, deriv, wrt) ==
    IF IsErr(deriv) \/ i > Len(args) THEN deriv
    ELSE IF i = 1 THEN Add_diff_from(args, 2, diff(args[1], wrt), wrt)
    ELSE Add_diff_from(args, i + 1, py_add(deriv, diff(args[i], wrt)), wrt)

Add_diff(self, wrt) == Add_diff_from(self.args, 1, Number(Raw(0)), wrt)

\* the inner loop of Multiply.diff: term times every operand j # i, from j on
Multiply_term(args, i, j, term) ==
    IF IsErr(term) \/ j > Len(args) THEN term
    ELSE IF j = i THEN Multiply_term(args, i, j + 1, term)
    ELSE Multiply_term(args, i, j + 1, py_mul(term, args[j]))

\* the outer loop of Multiply.diff from operand i on
Multiply_diff_from(args, i, deriv, wrt) ==
    IF IsErr(deriv) \/ i > Len(args) THEN deriv
    ELSE Bind(Multiply_term(args, i, 1, diff(args[i], wrt)), LAMBDA term :
         IF i = 1 THEN Multiply_diff_from(args, 2, term, wrt)
         ELSE Multiply_diff_from(args, i + 1, py_add(deriv, term), wrt))

Multiply_diff(self, wrt) == Multiply_diff_from(self.args, 1, Number(Raw(0)), wrt)

Derivative_diff(self, wrt) ==
    IF IsTensor(wrt) THEN Tensor_init([i \in 1..Len(wrt.args) |-> Derivative(wrt.args[i], self)])
    ELSE Derivative(wrt, self)

Tensor_diff(self, wrt) == Tensor_init([i \in 1..Len(self.args) |-> diff(self.args[i], wrt)])

\* e.diff(wrt), dispatched on the type of e; a host number has no diff
diff(e, wrt) ==
    IF IsErr(e) THEN e
    ELSE IF e.t = "Number" THEN Number_diff(e, wrt)
    ELSE IF e.t = "Symbol" THEN Symbol_diff(e, wrt)
    ELSE IF e.t = "Negative" THEN Negative_diff(e, wrt)
    ELSE IF e.t = "Add" THEN Add_diff(e, wrt)
    ELSE IF e.t = "Multiply" THEN Multiply_diff(e, wrt)
    ELSE IF e.t = "Derivative" THEN Derivative_diff(e, wrt)
    ELSE IF e.t = "Tensor" THEN Tensor_diff(e, wrt)
    ELSE Err("AttributeError")

(***************************************************************************)
(* numpy arithmetic on the values eval handles: host numbers and arrays.   *)
(* The heap maps the id of each persistent array to its entries; Deref     *)
(* reads an array wherever it lives.                                       *)
(***************************************************************************)
R(v, h) == [v |-> v, h |-> h]

Deref(a, h) ==
    IF a.t = "ref" THEN NdArray([i \in 1..Len(h[a.id]) |-> Raw(h[a.id][i])]) ELSE a

np_shape(x) ==
    IF x.t = "ndarray" /\ Len(x.data) > 0 THEN <<Len(x.data)>> \o np_shape(x.data[1])
    ELSE IF x.t = "ndarray" THEN <<0>> ELSE <<>>

\* elementwise op of two numbers or arrays, with broadcasting of numbers
np_bin(op, x, y) ==
    IF IsInt(x) /\ IsInt(y) THEN Raw(ApplyOp(op, x.v, y.v))
    ELSE LET n == IF IsInt(x) THEN Len(y.data) ELSE Len(x.data)
             d == [i \in 1..n |-> np_bin(op, IF IsInt(x) THEN x ELSE x.data[i],
                                             IF IsInt(y) THEN y ELSE y.data[i])]
         IN IF ~IsInt(x) /\ ~IsInt(y) /\ np_shape(x) # np_shape(y) THEN Err("ValueError")
            ELSE NdArray(d)

\* value op= v, the in-place form: an array on the left is updated where it
\* lives and stays the same object; nodes and host numbers have no in-place
\* form and fall back to value op v
py_iop(op, value, v, h) ==
    IF IsErr(v) THEN R(v, h)
    ELSE IF IsArray(value) THEN
        IF ~(IsInt(v) \/ IsArray(v)) THEN R(Err("TypeError"), h)
        ELSE Bind(np_bin(op, Deref(value, h), Deref(v, h)), LAMBDA r :
             IF IsErr(r) THEN R(r, h)
             ELSE IF value.t = "ref"
                  THEN R(value, [h EXCEPT ![value.id] = [i \in 1..Len(r.data) |-> r.data[i].v]])
                  ELSE R(r, h))
    ELSE IF IsInt(value) /\ IsArray(v) THEN R(np_bin(op, value, Deref(v, h)), h)
    ELSE R(IF op = "+" THEN py_add(value, v) ELSE py_mul(value, v), h)

\* -value
neg_value(v, h) ==
    IF IsArray(v) THEN R(np_bin("-", Raw(0), Deref(v, h)), h) ELSE R(py_neg(v), h)

(***************************************************************************)
(* eval(e, bindings, h, d): the value of e.eval under the bindings and the *)
(* heap it leaves, d being the eval frames the interpreter still allows.   *)
(***************************************************************************)
Number_eval(self, h) == R(self.value, h)

Symbol_eval(self, bindings, h) ==
    R(IF self.name \in DOMAIN bindings THEN bindings[self.name] ELSE self, h)

Negative_eval(self, bindings, h, d) ==
    Bind(eval(self.arg, bindings, h, d), LAMBDA r :
        IF IsErr(r.v) THEN r ELSE neg_value(r.v, r.h))

\* the loop of Add.eval from operand i on, value being the sum so far
Add_eval_from(args, i, value, bindings, h, d) ==
    IF i > Len(args) THEN R(value, h)
    ELSE Bind(eval(args[i], bindings, h, d), LAMBDA r :
         IF IsErr(r.v) THEN r
         ELSE IF i = 1 THEN Add_eval_from(args, 2, r.v, bindings, r.h, d)
         ELSE Bind(py_iop("+", value, r.v, r.h), LAMBDA s :
              IF IsErr(s.v) THEN s ELSE Add_eval_from(args, i + 1, s.v, bindings, s.h, d)))

Add_eval(self, bindings, h, d) == Add_eval_from(self.args, 1, Raw(0), bindings, h, d)

Multiply_eval_from(args, i, value, bindings, h, d) ==
    IF i > Len(args) THEN R(value, h)
    ELSE Bind(eval(args[i], bindings, h, d), LAMBDA r :
         IF IsErr(r.v) THEN r
         ELSE IF i = 1 THEN Multiply_eval_from(args, 2, r.v, bindings, r.h, d)
         ELSE Bind(py_iop("*", value, r.v, r.h), LAMBDA s :
              IF IsErr(s.v) THEN s ELSE Multiply_eval_from(args, i + 1, s.v, bindings, s.h, d)))

Multiply_eval(self, bindings, h, d) == Multiply_eval_from(self.args, 1, Raw(1), bindings, h, d)

Derivative_eval(self, bindings, h, d) ==
    IF self.arg = None THEN R(self, h)
    ELSE Bind(diff(self.arg, self.wrt), LAMBDA dd :
         IF IsErr(dd) THEN R(dd, h) ELSE eval(dd, bindings, h, d))

\* the comprehension of Tensor.eval from element i on, value being the list so far
Tensor_eval_from(args, i, value, bindings, h, d) ==
    IF i > Len(args) THEN R(PyList(value), h)
    ELSE Bind(eval(args[i], bindings, h, d), LAMBDA r :
         IF IsErr(r.v) THEN r
         ELSE Tensor_eval_from(args, i + 1, Append(value, r.v), bindings, r.h, d))

Tensor_eval(self, bindings, h, d) ==
    Bind(Tensor_eval_from(self.args, 1, <<>>, bindings, h, d), LAMBDA r :
        IF IsErr(r.v) THEN r
        ELSE IF \E i \in 1..Len(r.v.args) : IsExpression(r.v.args[i])
             THEN R(Tensor_init(r.v.args), r.h)
             ELSE R(NdArray([i \in 1..Len(r.v.args) |-> Deref(r.v.args[i], r.h)]), r.h))

eval(e, bindings, h, d) ==
    IF IsErr(e) THEN R(e, h)
    ELSE IF ~IsExpression(e) THEN R(Err("AttributeError"), h)
    ELSE IF d = 0 THEN R(Err("RecursionError"), h)
    ELSE IF e.t = "Number" THEN Number_eval(e, h)
    ELSE IF e.t = "Symbol" THEN Symbol_eval(e, bindings, h)
    ELSE IF e.t = "Negative" THEN Negative_eval(e, bindings, h, d - 1)
    ELSE IF e.t = "Add" THEN Add_eval(e, bindings, h, d - 1)
    ELSE IF e.t = "Multiply" THEN Multiply_eval(e, bindings, h, d - 1)
    ELSE IF e.t = "Derivative" THEN Derivative_eval(e, bindings, h, d - 1)
    ELSE Tensor_eval(e, bindings, h, d - 1)

(***************************************************************************)
(* The clients.  A client coerces host values with express, combines the   *)
(* results with the operator overloads and the node constructors,          *)
(* differentiates the tree it built and evaluates it under bindings.       *)
(***************************************************************************)
\* a name is the sequence of its characters
Names == {<<"x">>, <<"y">>}
Symbols == {Symbol(n) : n \in Names}
HostNumbers == {Raw(0), Raw(1), Raw(2)}
HostLeaves == {Str(<<"x">>), Str(<<"y">>)} \cup HostNumbers
Leaves == {express(h) : h \in HostLeaves}
\* vectors of symbols to take a gradient with respect to
SymbolVectors == {Tensor_init(<<Symbol(<<"x">>), Symbol(<<"y">>)>>), Tensor_init(<<Symbol(<<"y">>)>>)}
\* the binding sets eval is called with
NoBindings == <<>>
FullBindings == (<<"x">> :> Raw(2)) @@ (<<"y">> :> Raw(3))
BindingChoices == {NoBindings, (<<"y">> :> Raw(3)), FullBindings}

Op(op, a, b) == [op |-> op, a |-> a, b |-> b]

\* the client keeps what an operation returned; an exception leaves f as it was
Built(op, a, b, r) ==
    /\ nops > 0
    /\ nops' = nops - 1
    /\ last' = Op(op, a, b)
    /\ f' = IF IsErr(r) THEN f ELSE r
    /\ exc' = IF IsErr(r) THEN r ELSE None
    /\ dwrt' = None /\ df' = None /\ env' = NoBindings /\ res' = None
    /\ UNCHANGED <<g, heap>>

Neg == IsExpression(f) /\ Built("neg", f, None, py_neg(f))

AddOp(C) == \E c \in C : IsExpression(f) /\ Built("add", f, c, py_add(f, c))

RAddOp(C) == \E c \in C : IsExpression(f) /\ Built("add", c, f, py_add(c, f))

SubOp(C) == \E c \in C : IsExpression(f) /\ Built("sub", f, c, py_sub(f, c))

RSubOp(C) == \E c \in C : IsExpression(f) /\ Built("sub", c, f, py_sub(c, f))

MulOp(C) == \E c \in C : IsExpression(f) /\ Built("mul", f, c, py_mul(f, c))

RMulOp(C) == \E c \in C : IsExpression(f) /\ Built("mul", c, f, py_mul(c, f))

\* Multiply(*args) and Add(*args), called with one to N operands
NewMultiply(N) ==
    \E n \in 1..N : LET args == [i \in 1..n |-> IF i = 2 THEN g ELSE f] IN
        IsExpression(f) /\ Built("Multiply", PyList(args), None, Multiply(args))

NewAdd(N) ==
    \E n \in 1..N : LET args == [i \in 1..n |-> IF i = 2 THEN g ELSE f] IN
        IsExpression(f) /\ Built("Add", PyList(args), None, Add(args))

\* a bare Derivative applied by multiplication
ApplyD ==
    \E w \in Symbols :
        IsExpression(f) /\ Built("apply", Derivative(w, None), f, py_mul(Derivative(w, None), f))

\* the client goes on with the derivative
Adopt == df # None /\ IsExpression(df) /\ Built("adopt", df, None, df)

Differentiate(W) ==
    \E w \in W :
        /\ df = None /\ res = None
        /\ dwrt' = w
        /\ df' = diff(f, w)
        /\ exc' = IF IsErr(df') THEN df' ELSE None
        /\ UNCHANGED <<f, g, last, env, res, heap, nops>>

\* a result as the client sees it: an array that lives in the heap shows its entries
Shown(v, h) == IF v.t = "ref" THEN Deref(v, h) ELSE v

\* eval is called on the derivative when one was taken, on f otherwise
Target == IF df = None THEN f ELSE df

\* the arrays of the heap have small entries
SmallEntries == \A i \in 1..Len(heap) : \A j \in 1..Len(heap[i]) : heap[i][j] <= MaxEntry

\* one call of eval on the target under the bindings b
Call(b) ==
    /\ ~IsErr(Target) /\ SmallEntries
    /\ \E r \in {eval(Target, b, heap, RecursionLimit)} :
        /\ res' = Shown(r.v, r.h)
        /\ exc' = IF IsErr(r.v) THEN r.v ELSE None
        /\ heap' = r.h
    /\ env' = b
    /\ UNCHANGED <<f, g, last, dwrt, df, nops>>

Evaluate(B) == \E b \in B : res = None /\ Call(b)

Fresh ==
    /\ last = Op("express", None, None)
    /\ dwrt = None /\ df = None /\ env = NoBindings /\ res = None /\ exc = None

(***************************************************************************)
(* The scalar client, which also passes host numbers to the overloads.     *)
(***************************************************************************)
Operands == {g} \cup HostNumbers

Init == f \in Leaves /\ g \in Leaves /\ Fresh /\ heap = <<>> /\ nops = MaxOps

Next ==
    \/ Neg \/ AddOp(Operands) \/ RAddOp(Operands) \/ SubOp(Operands) \/ RSubOp(Operands)
    \/ MulOp(Operands) \/ RMulOp(Operands)
    \/ NewMultiply(3) \/ NewAdd(3) \/ ApplyD \/ Adopt
    \/ Differentiate(Symbols) \/ Evaluate(BindingChoices)

Spec == Init /\ [][Next]_vars

(***************************************************************************)
(* The gradient client: trees of nodes, differentiated with respect to a   *)
(* symbol or a vector of symbols.                                          *)
(***************************************************************************)
InitGrad == f \in Leaves /\ g \in Leaves /\ Fresh /\ heap = <<>> /\ nops = MaxGradOps

NextGrad ==
    \/ Neg \/ AddOp({g}) \/ SubOp({g}) \/ MulOp({g})
    \/ NewMultiply(3) \/ NewAdd(3) \/ ApplyD \/ Adopt
    \/ Differentiate(Symbols \cup SymbolVectors)

SpecGrad == InitGrad /\ [][NextGrad]_vars

(***************************************************************************)
(* The tensor client: it builds tensors from nested host sequences and     *)
(* combines them elementwise, by inner and outer product and by transpose. *)
(***************************************************************************)
HostVector == <<Str(<<"x">>), Str(<<"y">>)>>
HostNumbersVector == <<Raw(1), Raw(2)>>
HostMatrix == <<PyList(<<Str(<<"x">>), Raw(1)>>), PyList(<<Raw(2), Raw(3)>>)>>
HostCube == <<PyList(<<PyList(<<Raw(1), Str(<<"x">>)>>)>>)>>
HostEmpty == <<>>
HostRagged == <<PyList(<<Str(<<"x">>)>>), PyList(<<Str(<<"x">>), Str(<<"y">>)>>)>>
HostSymbolLists == <<Str(<<"x", " ", "y">>), Str(<<"x", " ", "y">>)>>
HostTensors == {HostVector, HostNumbersVector, HostMatrix, HostCube,
                HostEmpty, HostRagged, HostSymbolLists}
TensorLeaves == {express(PyList(h)) : h \in {HostVector, HostNumbersVector, HostMatrix}}

NewTensor == nops > 0 /\ \E h \in HostTensors : Built("Tensor", PyList(h), None, Tensor_init(h))

Inner == IsExpression(f) /\ Built("inner", f, g, Expression_inner(f, g))

Outer == IsExpression(f) /\ Built("outer", f, g, Expression_outer(f, g))

Transpose == IsExpression(f) /\ Built("T", f, None, Expression_T(f))

TensorOperands == {g, Raw(2)}

InitTensor ==
    /\ f \in TensorLeaves /\ g \in TensorLeaves
    /\ Fresh /\ heap = <<>> /\ nops = MaxTensorOps

NextTensor ==
    \/ NewTensor \/ Neg \/ AddOp(TensorOperands) \/ SubOp(TensorOperands) \/ RSubOp({Raw(2)})
    \/ MulOp(TensorOperands) \/ Inner \/ Outer \/ Transpose \/ Adopt
    \/ Differentiate(Symbols \cup SymbolVectors) \/ Evaluate({NoBindings, FullBindings})

SpecTensor == InitTensor /\ [][NextTensor]_vars

(***************************************************************************)
(* The array client: its arrays live in the heap; it stores one in a       *)
(* Number node, binds symbols to them and evaluates more than once.        *)
(***************************************************************************)
Heap0 == <<<<1, 2>>, <<3, 4>>>>
ArrLeaves == {Symbol(<<"x">>), Symbol(<<"y">>), Number(Ref(1)), Number(Raw(2))}
ArrBindings == {(<<"x">> :> Ref(1)) @@ (<<"y">> :> Ref(2)),
                (<<"x">> :> Ref(1)) @@ (<<"y">> :> Raw(2)),
                (<<"x">> :> Raw(2)) @@ (<<"y">> :> Ref(2))}

\* the same call of eval once more, while the entries are small
Reevaluate == res # None /\ Call(env)

InitArr == f \in ArrLeaves /\ g \in ArrLeaves /\ Fresh /\ heap = Heap0 /\ nops = MaxArrOps

NextArr ==
    \/ Neg \/ AddOp({g}) \/ MulOp({g}) \/ NewAdd(2) \/ NewMultiply(2)
    \/ Evaluate(ArrBindings) \/ Reevaluate

SpecArr == InitArr /\ [][NextArr]_vars

(***************************************************************************)
(* Vocabulary of the properties.                                           *)
(***************************************************************************)
RECURSIVE IsNodeTree(_), HasTensor(_), SymbolsOf(_), SeqSum(_), SeqProd(_)

\* a node all of whose operands, recursively, are nodes
IsNodeTree(e) ==
    /\ IsExpression(e)
    /\ IF e.t \in {"Add", "Multiply", "Tensor"} THEN \A i \in 1..Len(e.args) : IsNodeTree(e.args[i])
       ELSE IF e.t = "Negative" THEN IsNodeTree(e.arg)
       ELSE IF e.t = "Derivative" THEN IsNodeTree(e.wrt) /\ (e.arg = None \/ IsNodeTree(e.arg))
       ELSE TRUE

HasTensor(e) ==
    IF e.t = "Tensor" THEN TRUE
    ELSE IF e.t \in {"Add", "Multiply"} THEN \E i \in 1..Len(e.args) : HasTensor(e.args[i])
    ELSE IF e.t = "Negative" THEN HasTensor(e.arg)
    ELSE IF e.t = "Derivative" THEN HasTensor(e.wrt) \/ (e.arg # None /\ HasTensor(e.arg))
    ELSE FALSE

\* a scalar node: a tree of nodes with no Tensor in it
ScalarNode(e) == IsNodeTree(e) /\ ~HasTensor(e)

\* the names of the symbols that occur in e
SymbolsOf(e) ==
    IF e.t = "Symbol" THEN {e.name}
    ELSE IF e.t \in {"Add", "Multiply", "Tensor"} THEN UNION {SymbolsOf(e.args[i]) : i \in 1..Len(e.args)}
    ELSE IF e.t = "Negative" THEN SymbolsOf(e.arg)
    ELSE IF e.t = "Derivative" THEN SymbolsOf(e.wrt) \cup (IF e.arg = None THEN {} ELSE SymbolsOf(e.arg))
    ELSE {}

Resolves(b, e) == SymbolsOf(e) \subseteq DOMAIN b

\* e.eval under b, in the current heap
Val(e, b) == eval(e, b, heap, RecursionLimit).v

SeqSum(ns) == IF ns = <<>> THEN 0 ELSE Head(ns) + SeqSum(Tail(ns))
SeqProd(ns) == IF ns = <<>> THEN 1 ELSE Head(ns) * SeqProd(Tail(ns))

\* sum over i of a_i.diff(w).eval(b) times the product of a_j.eval(b), j # i
ProductRuleSum(args, w, b) ==
    SeqSum([i \in 1..Len(args) |->
        Val(diff(args[i], w), b).v
          * SeqProd([j \in 1..Len(args) |-> IF j = i THEN 1 ELSE Val(args[j], b).v])])

ProductRuleDefined(args, w, b) ==
    \A i \in 1..Len(args) : IsInt(Val(diff(args[i], w), b)) /\ IsInt(Val(args[i], b))

(***************************************************************************)
(* C1.  Product rule: for a Multiply node f of nodes, a symbol w and       *)
(* bindings that resolve every symbol of f, f.diff(w).eval(bindings) is a  *)
(* number, the sum over i of a_i.diff(w).eval(bindings) times the product  *)
(* of the other operands' values.  (Stated as claimed; the code violates   *)
(* it.)                                                                    *)
(***************************************************************************)
C1_ProductRule ==
    (/\ f.t = "Multiply" /\ ScalarNode(f)
     /\ dwrt.t = "Symbol" /\ df # None /\ res # None
     /\ Resolves(env, f))
    => /\ IsInt(res)
       /\ ProductRuleDefined(f.args, dwrt, env) => res.v = ProductRuleSum(f.args, dwrt, env)

(***************************************************************************)
(* C2.  For a symbol x, x.diff(x).eval() with no bindings is 1; for a      *)
(* symbol y of another name, x.diff(y) is the zero constant and            *)
(* x.diff(y).eval() with no bindings is 0.  (Stated as claimed; the code   *)
(* violates it.)                                                           *)
(***************************************************************************)
C2_SymbolDerivative ==
    (f.t = "Symbol" /\ dwrt.t = "Symbol" /\ df # None)
    => /\ dwrt.name # f.name => df = Number(Raw(0))
       /\ (res # None /\ env = NoBindings)
            => res = Raw(IF dwrt.name = f.name THEN 1 ELSE 0)

(***************************************************************************)
(* C3.  eval terminates on every finite tree: it returns a value or a      *)
(* residual expression and never recurses without end; in the interpreter  *)
(* endless recursion ends in RecursionError.  (Stated as claimed; the code *)
(* violates it.)                                                           *)
(***************************************************************************)
C3_EvalTerminates == res # Err("RecursionError")

(***************************************************************************)
(* C4.  Sum rule: for nodes a and b, a symbol x and bindings that resolve  *)
(* both, (a + b).diff(x).eval(bindings) is the number                      *)
(* a.diff(x).eval(bindings) + b.diff(x).eval(bindings).  (Stated as        *)
(* claimed; the code violates it.)                                         *)
(***************************************************************************)
C4_SumRule ==
    (/\ last.op = "add" /\ ScalarNode(last.a) /\ ScalarNode(last.b) /\ ~IsErr(f)
     /\ dwrt.t = "Symbol" /\ df # None /\ res # None
     /\ Resolves(env, last.a) /\ Resolves(env, last.b))
    => LET da == Val(diff(last.a, dwrt), env)
           db == Val(diff(last.b, dwrt), env)
       IN IsInt(res) /\ ((IsInt(da) /\ IsInt(db)) => res.v = da.v + db.v)

(***************************************************************************)
(* C10.  An overload called with a scalar node and a host number (e + c,   *)
(* c + e, e - c, c - e, e * c, c * e) returns a node all of whose operands *)
(* are nodes, and eval of it under bindings that resolve e returns the     *)
(* arithmetic value.  (Stated as claimed; the code violates it.)           *)
(***************************************************************************)
HostOperation ==
    /\ last.op \in {"add", "sub", "mul"}
    /\ \/ IsInt(last.a) /\ ScalarNode(last.b)
       \/ ScalarNode(last.a) /\ IsInt(last.b)

Arith(op, m, n) == IF op = "add" THEN m + n ELSE IF op = "sub" THEN m - n ELSE m * n

HostValue(a, b) == IF IsInt(a) THEN a ELSE Val(a, b)

C10_OverloadsBuildNodes ==
    HostOperation
    => /\ exc = None \/ res # None
       /\ IsNodeTree(f)
       /\ (/\ df = None /\ res # None
           /\ Resolves(env, last.a) /\ Resolves(env, last.b)
           /\ IsInt(HostValue(last.a, env)) /\ IsInt(HostValue(last.b, env)))
          => res = Raw(Arith(last.op, HostValue(last.a, env).v, HostValue(last.b, env).v))

(***************************************************************************)
(* C9.  Gradient: for a scalar node f and a vector W of n symbols,         *)
(* f.diff(W) is a vector of n elements, the i-th being f.diff(W[i]).       *)
(***************************************************************************)
IsSymbolVector(w) ==
    IsTensor(w) /\ \A i \in 1..Len(w.args) : w.args[i].t = "Symbol"

C9_Gradient ==
    (ScalarNode(f) /\ IsSymbolVector(dwrt) /\ df # None)
    => /\ IsTensor(df)
       /\ Tensor_order(df) = 1
       /\ Len(df.args) = Len(dwrt.args)
       /\ \A i \in 1..Len(dwrt.args) : df.args[i] = diff(f, dwrt.args[i])

\* a product with a symbol in it was differentiated with respect to (x, y)
C9_Witness ==
    /\ f.t = "Multiply" /\ ScalarNode(f) /\ SymbolsOf(f) # {}
    /\ IsSymbolVector(dwrt) /\ Len(dwrt.args) = 2
    /\ IsTensor(df) /\ df.args[1] # df.args[2]

(***************************************************************************)
(* Vocabulary of the tensor properties.                                    *)
(***************************************************************************)
RECURSIVE WellShaped(_), PlainTensor(_)

\* every Tensor in e has an element, elements of one shape, and the shape and
\* the order that follow from its first element's
WellShaped(e) ==
    IF ~IsExpression(e) THEN TRUE
    ELSE IF e.t = "Tensor" THEN
        /\ Len(e.args) > 0
        /\ \A i \in 1..Len(e.args) :
            /\ IsExpression(e.args[i])
            /\ WellShaped(e.args[i])
            /\ Tensor_shape(e) = <<Len(e.args)>> \o Tensor_shape(e.args[i])
            /\ Tensor_order(e) = 1 + Tensor_order(e.args[i])
    ELSE IF e.t \in {"Add", "Multiply"} THEN \A i \in 1..Len(e.args) : WellShaped(e.args[i])
    ELSE IF e.t = "Negative" THEN WellShaped(e.arg)
    ELSE IF e.t = "Derivative" THEN WellShaped(e.wrt) /\ WellShaped(e.arg)
    ELSE TRUE

\* a well-shaped Tensor whose leaves are numbers and symbols
PlainTensor(e) ==
    /\ IsTensor(e) /\ WellShaped(e)
    /\ \A i \in 1..Len(e.args) : e.args[i].t \in {"Number", "Symbol"} \/ PlainTensor(e.args[i])

\* the elements of a host sequence, coerced, do not all have one shape
ShapesDiffer(xs) ==
    \E i, j \in 1..Len(xs) :
        /\ IsExpression(express(xs[i])) /\ IsExpression(express(xs[j]))
        /\ Tensor_shape(express(xs[i])) # Tensor_shape(express(xs[j]))

(***************************************************************************)
(* C7.  Tensor shape invariant: constructing a Tensor from zero elements   *)
(* or from elements of differing shapes fails, and every Tensor that       *)
(* exists after any sequence of construction, unary minus, +, -, scalar *, *)
(* inner, outer, transpose and diff has at least one element, elements of  *)
(* one shape, shape = (number of elements,) + element shape and            *)
(* order = 1 + element order.                                              *)
(***************************************************************************)
C7_TensorShape ==
    /\ WellShaped(f) /\ WellShaped(g) /\ WellShaped(df)
    /\ WellShaped(last.a) /\ WellShaped(last.b)
    /\ (/\ last.op = "Tensor" /\ df = None /\ res = None
        /\ Len(last.a.args) = 0 \/ ShapesDiffer(last.a.args))
       => exc = Err("AssertionError")

\* a construction from rows of differing lengths has just failed, and the
\* tensor at hand is a matrix that an outer product or a transpose returned
C7_Witness ==
    /\ last.op = "Tensor" /\ ShapesDiffer(last.a.args) /\ exc = Err("AssertionError")
    /\ IsTensor(f) /\ Tensor_order(f) = 2 /\ f \notin TensorLeaves

(***************************************************************************)
(* C5.  Tensor.eval never fails on a well-formed Tensor: if an evaluated   *)
(* element is still a residual expression the result is a Tensor of the    *)
(* shape of the original, otherwise it is an array; also when some rows    *)
(* evaluate to arrays and others stay residual.  (Stated as claimed; the   *)
(* code violates it.)                                                      *)
(***************************************************************************)
AnyResidual(e, b) == \E i \in 1..Len(e.args) : IsExpression(Val(e.args[i], b))

C5_TensorEval ==
    (PlainTensor(f) /\ df = None /\ res # None)
    => /\ ~IsErr(res)
       /\ IF AnyResidual(f, env)
          THEN IsTensor(res) /\ Tensor_shape(res) = Tensor_shape(f)
          ELSE IsArray(res)

(***************************************************************************)
(* C6.  inner is the standard contraction over the last axis of the left   *)
(* operand and the first axis of the right one, under bindings that        *)
(* resolve every symbol: vector.vector, matrix.vector, vector.matrix and   *)
(* matrix.matrix.  (Stated as claimed; the code violates it.)              *)
(***************************************************************************)
Dot(u, v) == SeqSum([i \in 1..Len(u) |-> u[i].v * v[i].v])

Col(B, j) == [i \in 1..Len(B.data) |-> B.data[i].data[j]]

\* the standard contraction of two arrays of order 1 or 2
Contract(A, B) ==
    LET oa == Len(np_shape(A))
        ob == Len(np_shape(B))
    IN IF oa = 1 /\ ob = 1 THEN Raw(Dot(A.data, B.data))
       ELSE IF oa = 2 /\ ob = 1
            THEN NdArray([i \in 1..Len(A.data) |-> Raw(Dot(A.data[i].data, B.data))])
       ELSE IF oa = 1 /\ ob = 2
            THEN NdArray([j \in 1..Len(B.data[1].data) |-> Raw(Dot(A.data, Col(B, j)))])
       ELSE NdArray([i \in 1..Len(A.data) |->
                NdArray([j \in 1..Len(B.data[1].data) |-> Raw(Dot(A.data[i].data, Col(B, j)))])])

Contractible(a, b) ==
    /\ PlainTensor(a) /\ PlainTensor(b)
    /\ Tensor_order(a) \in {1, 2} /\ Tensor_order(b) \in {1, 2}
    /\ Tensor_shape(a)[Tensor_order(a)] = Tensor_shape(b)[1]

C6_InnerContraction ==
    (/\ last.op = "inner" /\ Contractible(last.a, last.b)
     /\ df = None /\ res # None
     /\ Resolves(env, last.a) /\ Resolves(env, last.b))
    => res = Contract(Val(last.a, env), Val(last.b, env))

(***************************************************************************)
(* C8.  eval is side-effect free: after e.eval(B) the array stored in a    *)
(* Number node of e and the arrays bound in B are unchanged, and           *)
(* evaluating e under B once more returns the same result.  (Stated as     *)
(* claimed; the code violates it.)                                         *)
(***************************************************************************)
C8_EvalSideEffectFree ==
    /\ heap = Heap0
    /\ (res # None /\ ~IsErr(res))
       => LET r == eval(Target, env, heap, RecursionLimit) IN Shown(r.v, r.h) = res

====
